---- MODULE Spec2Model ----
(***************************************************************************)
(* A model of the chess core: the coordinate and piece value types, the    *)
(* sparse Board (a Position -> Piece mapping), the Game legality gate      *)
(* (attempt_move), the Position.every generator and the algebraic-notation *)
(* parser.                                                                 *)
(***************************************************************************)
EXTENDS Integers, Sequences, FiniteSets, Bags, TLC

VARIABLES
    board,           \* Board._pieces: a function whose DOMAIN is the occupied squares
    current_player,  \* Game.current_player
    calls,           \* number of operations performed so far
    op,              \* name of the last operation performed ("init" before any)
    move,            \* argument of the last operation
    raised,          \* exception the last operation ended with ("none" when it returned)
    before,          \* Board._pieces as it was when the last operation started
    player_before,   \* Game.current_player when the last operation started
    yielded,         \* per Position.every() generator: the positions it has yielded so far
    exhausted,       \* per Position.every() generator: whether it has ended
    token,           \* the notation token last handed to the parser, a sequence of characters
    parsed           \* what Move.from_algebraic_notation gave for it

gameVars == <<board, current_player, calls, op, move, raised, before, player_before>>
everyVars == <<yielded, exhausted>>
parseVars == <<token, parsed>>
vars == <<gameVars, everyVars, parseVars>>

----------------------------------------------------------------------------
(* Bounds of the model *)

\* number of attempt_move calls applied to one Game
MaxCalls == 3

\* number of move_piece calls applied to one Board
MaxBoardCalls == 2

\* number of parts a notation token is put together from
MaxParts == 3

----------------------------------------------------------------------------
(* chess/chess.py: value types *)

BLACK == "BLACK"
WHITE == "WHITE"

\* class PieceColor(Enum), in definition (= iteration) order
PieceColor == <<BLACK, WHITE>>

\* class File(IntEnum): A = 0 .. H = 7, in definition (= iteration) order
File == <<0, 1, 2, 3, 4, 5, 6, 7>>

\* Rank.every: list(map(Rank, range(1, 9)))
RankEvery == [i \in 1..8 |-> i]

\* class Position(NamedTuple)
Position(file, rank) == [file |-> file, rank |-> rank]

\* class Piece(NamedTuple)
Piece(kind, color) == [kind |-> kind, color |-> color]

Range(s) == {s[i] : i \in DOMAIN s}

Positions == {Position(f, r) : f \in Range(File), r \in Range(RankEvery)}

\* Optional[Position] = None : a value that is no square of the board
None == [file |-> -1, rank |-> -1]

\* itertools.product(s, t): every pair, the first component varying slowest
Product(s, t) ==
    [k \in 1..(Len(s) * Len(t)) |->
        <<s[((k - 1) \div Len(t)) + 1], t[((k - 1) % Len(t)) + 1]>>]

\* the ranks left as Rank.every gives them, lowest first
Unreversed(s) == s

\* reversed(s)
Reversed(s) == [i \in DOMAIN s |-> s[Len(s) + 1 - i]]

\* Position.every: for rank, file in product(reversed(Rank.every()), File):
\*                     yield Position(file, rank)
PositionEvery ==
    LET pairs == Product(Reversed(RankEvery), File)
    IN [k \in DOMAIN pairs |-> Position(pairs[k][2], pairs[k][1])]

----------------------------------------------------------------------------
(* chess/chess.py: class Board *)

PAWN == "PAWN"
KNIGHT == "KNIGHT"
QUEEN == "QUEEN"
KING == "KING"
ROOK == "ROOK"
BISHOP == "BISHOP"

\* Board._default_piece_locations
default_piece_locations ==
    [f \in Range(File) |->
        CASE f = 0 -> ROOK
          [] f = 1 -> KNIGHT
          [] f = 2 -> BISHOP
          [] f = 3 -> QUEEN
          [] f = 4 -> KING
          [] f = 5 -> BISHOP
          [] f = 6 -> KNIGHT
          [] f = 7 -> ROOK]

\* Board.has_piece_at: position in self._pieces.keys()
has_piece_at(pieces, position) == position \in DOMAIN pieces

\* Board.place_piece: self._pieces[position] = piece
place_piece(pieces, piece, position) ==
    [p \in (DOMAIN pieces) \cup {position} |->
        IF p = position THEN piece ELSE pieces[p]]

\* dict.pop(position) on a present key: the mapping without that key
pop(pieces, position) ==
    [p \in (DOMAIN pieces) \ {position} |-> pieces[p]]

\* the pawn ranks of the two colours exchanged
pawn_rank_for_color_swapped(color) == IF color = WHITE THEN 7 ELSE 2

\* Board._pawn_rank_for_color
pawn_rank_for_color(color) == IF color = WHITE THEN 2 ELSE 7

\* Board._heavy_piece_rank_for_color
heavy_piece_rank_for_color(color) == IF color = WHITE THEN 1 ELSE 8

\* Board._piece_kind_for_file
piece_kind_for_file(file) == default_piece_locations[file]

\* Board._starting_pawn_positions
starting_pawn_positions(color) ==
    [i \in DOMAIN File |-> Position(File[i], pawn_rank_for_color(color))]

\* the loop "for position in positions: self.place_piece(piece, position)"
RECURSIVE place_each(_, _, _, _)
place_each(pieces, piece, positions, i) ==
    IF i > Len(positions) THEN pieces
    ELSE place_each(place_piece(pieces, piece, positions[i]), piece, positions, i + 1)

\* Board._place_pawns
RECURSIVE place_pawns_from(_, _)
place_pawns_from(pieces, c) ==
    IF c > Len(PieceColor) THEN pieces
    ELSE place_pawns_from(
            place_each(pieces, Piece(PAWN, PieceColor[c]),
                       starting_pawn_positions(PieceColor[c]), 1),
            c + 1)

place_pawns(pieces) == place_pawns_from(pieces, 1)

\* Board._place_heavy_pieces
RECURSIVE place_heavy_pieces_from(_, _)
place_heavy_pieces_from(pieces, k) ==
    LET pairs == Product(PieceColor, File) IN
    IF k > Len(pairs) THEN pieces
    ELSE LET color == pairs[k][1]
             file  == pairs[k][2]
             rank  == heavy_piece_rank_for_color(color)
             piece_kind == piece_kind_for_file(file)
         IN place_heavy_pieces_from(
                place_piece(pieces, Piece(piece_kind, color), Position(file, rank)),
                k + 1)

place_heavy_pieces(pieces) == place_heavy_pieces_from(pieces, 1)

\* Board._set_up_new_game
set_up_new_game(pieces) == place_heavy_pieces(place_pawns(pieces))

\* Board.__init__: self._pieces = {} ; self._set_up_new_game()
NewBoard == set_up_new_game(<<>>)

\* Board.__iter__: iter(self._pieces), the iteration of a dict: its keys.
\* The order is insertion order; the model keeps the multiset of yielded elements.
board_iter(pieces) == SetToBag(DOMAIN pieces)

\* pop(position, None): an absent key gives None instead of raising
remove_piece_at_default(pieces, position) ==
    IF position \in DOMAIN pieces
    THEN [raised |-> "none", piece |-> pieces[position], pieces |-> pop(pieces, position)]
    ELSE [raised |-> "none", piece |-> None, pieces |-> pieces]

\* Board._remove_piece_at: pop, KeyError turned into IllegalMoveError.
\* Gives the exception, the piece returned and the mapping afterwards.
remove_piece_at(pieces, position) ==
    IF position \in DOMAIN pieces
    THEN [raised |-> "none", piece |-> pieces[position], pieces |-> pop(pieces, position)]
    ELSE [raised |-> "IllegalMoveError", piece |-> None, pieces |-> pieces]

\* the removal and the placement as one step, from the mapping before the call
move_piece_from(pieces, removed, destination) ==
    IF removed.raised # "none"
    THEN [raised |-> removed.raised, pieces |-> removed.pieces]
    ELSE [raised |-> "none",
          pieces |-> place_piece(removed.pieces, removed.piece, destination)]

\* the piece is read at origin and placed, and origin keeps it
move_piece_copying(pieces, origin, destination) ==
    LET removed == remove_piece_at(pieces, origin) IN
    move_piece_from(pieces, [removed EXCEPT !.pieces = pieces], destination)

\* Board.move_piece: place_piece(piece=_remove_piece_at(origin), position=destination);
\* the argument is evaluated, and may raise, before place_piece runs
move_piece(pieces, origin, destination) ==
    move_piece_from(pieces, remove_piece_at(pieces, origin), destination)

\* Board.piece_at: the piece, or KeyError on an empty square
piece_at(pieces, position) ==
    IF has_piece_at(pieces, position)
    THEN [raised |-> "none", piece |-> pieces[position]]
    ELSE [raised |-> "KeyError", piece |-> None]

----------------------------------------------------------------------------
(* chess/chess.py: the Move dataclasses and class Game *)

\* @dataclass class RegularMove(Move)
RegularMove(destination, origin, piece_kind, with_capture) ==
    [type |-> "RegularMove", destination |-> destination, origin |-> origin,
     piece_kind |-> piece_kind, with_capture |-> with_capture, kingside |-> FALSE]

\* @dataclass class CastlingMove(Move)
CastlingMove(kingside) ==
    [type |-> "CastlingMove", destination |-> None, origin |-> None,
     piece_kind |-> PAWN, with_capture |-> FALSE, kingside |-> kingside]

\* no operation yet: a placeholder for a Move
NoMove == CastlingMove(FALSE)

\* the presence check made only when an origin is given
ensure_piece_is_present_at_if_given(pieces, position) ==
    IF position # None /\ ~has_piece_at(pieces, position)
    THEN "IllegalMoveError" ELSE "none"

\* the presence check left out
ensure_piece_is_present_at_skipped(pieces, position) == "none"

\* Game._ensure_piece_is_present_at: raises unless the board has a piece there
ensure_piece_is_present_at(pieces, position) ==
    IF ~has_piece_at(pieces, position) THEN "IllegalMoveError" ELSE "none"

\* the turn check left out
ensure_player_can_move_skipped(player, piece) == "none"

\* the colour comparison the wrong way round
ensure_player_can_move_inverted(player, piece) ==
    IF piece.color = player THEN "IllegalMoveError" ELSE "none"

\* Game._ensure_player_can_move: raises when the piece is not the current player's
ensure_player_can_move(player, piece) ==
    IF piece.color # player THEN "IllegalMoveError" ELSE "none"

\* Game._attempt_regular_move: the two checks, then Board.move_piece
attempt_regular_move(pieces, player, m) ==
    IF ensure_piece_is_present_at(pieces, m.origin) # "none"
    THEN [raised |-> "IllegalMoveError", pieces |-> pieces, player |-> player]
    ELSE LET found == piece_at(pieces, m.origin) IN
         IF found.raised # "none"
         THEN [raised |-> found.raised, pieces |-> pieces, player |-> player]
         ELSE IF ensure_player_can_move(player, found.piece) # "none"
         THEN [raised |-> "IllegalMoveError", pieces |-> pieces, player |-> player]
         ELSE LET moved == move_piece(pieces, m.origin, m.destination)
              IN [raised |-> moved.raised, pieces |-> moved.pieces, player |-> player]

\* castling carried out: the king of the colour to move goes two files towards the rook
attempt_move_castling(pieces, player, m) ==
    IF m.type = "RegularMove"
    THEN attempt_regular_move(pieces, player, m)
    ELSE LET rank == heavy_piece_rank_for_color(player)
             moved == move_piece(pieces, Position(4, rank),
                                 Position(IF m.kingside THEN 6 ELSE 2, rank))
         IN [raised |-> moved.raised, pieces |-> moved.pieces, player |-> player]

\* a successful regular move hands the turn to the other colour
attempt_move_advancing(pieces, player, m) ==
    IF m.type = "RegularMove"
    THEN LET out == attempt_regular_move(pieces, player, m) IN
         IF out.raised = "none" THEN [out EXCEPT !.player = IF player = WHITE THEN BLACK ELSE WHITE] ELSE out
    ELSE [raised |-> "none", pieces |-> pieces, player |-> player]

\* Game.attempt_move: only a RegularMove does anything
attempt_move(pieces, player, m) ==
    IF m.type = "RegularMove"
    THEN attempt_regular_move(pieces, player, m)
    ELSE [raised |-> "none", pieces |-> pieces, player |-> player]

----------------------------------------------------------------------------
(* chess/types.py and chess/moves.py: the notation parser.  A token is a     *)
(* sequence of one-character strings.                                       *)

\* str.lower on the letters that occur in tokens
Lower(c) ==
    CASE c = "A" -> "a" [] c = "B" -> "b" [] c = "C" -> "c" [] c = "D" -> "d"
      [] c = "E" -> "e" [] c = "F" -> "f" [] c = "G" -> "g" [] c = "H" -> "h"
      [] c = "K" -> "k" [] c = "N" -> "n" [] c = "O" -> "o" [] c = "P" -> "p"
      [] c = "Q" -> "q" [] c = "R" -> "r" [] c = "X" -> "x" [] c = "Z" -> "z"
      [] OTHER -> c

\* str.upper on the letters that occur in tokens
Upper(c) ==
    CASE c = "a" -> "A" [] c = "b" -> "B" [] c = "c" -> "C" [] c = "d" -> "D"
      [] c = "e" -> "E" [] c = "f" -> "F" [] c = "g" -> "G" [] c = "h" -> "H"
      [] c = "k" -> "K" [] c = "n" -> "N" [] c = "o" -> "O" [] c = "p" -> "P"
      [] c = "q" -> "Q" [] c = "r" -> "R" [] c = "x" -> "X" [] c = "z" -> "Z"
      [] OTHER -> c

\* the names of the members of File, in definition order
FileNames == <<"A", "B", "C", "D", "E", "F", "G", "H">>

\* int(c) for a digit c
DigitValue ==
    [c \in {"0", "1", "2", "3", "4", "5", "6", "7", "8", "9"} |->
        CASE c = "0" -> 0 [] c = "1" -> 1 [] c = "2" -> 2 [] c = "3" -> 3
          [] c = "4" -> 4 [] c = "5" -> 5 [] c = "6" -> 6 [] c = "7" -> 7
          [] c = "8" -> 8 [] c = "9" -> 9]

\* File.from_algebraic_notation: the first member whose lowered name is the lowered letter
FileFromAlgebraicNotation(file_letter) ==
    LET hits == {i \in DOMAIN FileNames : Lower(file_letter) = Lower(FileNames[i])}
    IN IF hits = {}
       THEN [raised |-> "InvalidNotationError", file |-> -1]
       ELSE [raised |-> "none",
             file |-> File[CHOOSE i \in hits : \A j \in hits : i <= j]]

\* Rank.is_valid_value
is_valid_value(rank) == 1 <= rank /\ rank <= 8

\* Rank.from_algebraic_notation
RankFromAlgebraicNotation(rank) ==
    IF rank \notin DOMAIN DigitValue
    THEN [raised |-> "InvalidNotationError", rank |-> -1]
    ELSE IF ~is_valid_value(DigitValue[rank])
    THEN [raised |-> "InvalidNotationError", rank |-> -1]
    ELSE [raised |-> "none", rank |-> DigitValue[rank]]

\* Position.from_algebraic_notation on a two-character string
PositionFromAlgebraicNotation(location) ==
    LET f == FileFromAlgebraicNotation(location[1])
        r == RankFromAlgebraicNotation(location[2])
    IN IF f.raised # "none" THEN [raised |-> f.raised, position |-> None]
       ELSE IF r.raised # "none" THEN [raised |-> r.raised, position |-> None]
       ELSE [raised |-> "none", position |-> Position(f.file, r.rank)]

\* the values of the members of PieceKind
PieceKindValues ==
    [v \in {"P", "N", "Q", "K", "R", "B"} |->
        CASE v = "P" -> PAWN [] v = "N" -> KNIGHT [] v = "Q" -> QUEEN
          [] v = "K" -> KING [] v = "R" -> ROOK   [] v = "B" -> BISHOP]

\* PieceKind.from_letter; the letter is <<>> for a group that took no part in the match
from_letter(letter) ==
    IF letter = <<>> THEN [raised |-> "none", kind |-> PAWN]
    ELSE IF Upper(letter[1]) \in DOMAIN PieceKindValues
    THEN [raised |-> "none", kind |-> PieceKindValues[Upper(letter[1])]]
    ELSE [raised |-> "ValueError", kind |-> PAWN]

\* the character classes of RegularMove._regex
PieceKindClass == {"K", "Q", "N", "B", "R"}
FileClass == {"a", "b", "c", "d", "e", "f", "g", "h"}
RankClass == {"1", "2", "3", "4", "5", "6", "7", "8"}
CaptureClass == {"x", ":"}

\* [a-h][1-8] at index i of the token
SquareAt(tok, i) ==
    /\ i + 1 <= Len(tok)
    /\ tok[i] \in FileClass
    /\ tok[i + 1] \in RankClass

\* One way through the pattern: each optional group taken (1) or skipped (0).
\* Gives the groups of the match, or matched = FALSE.
MatchWith(tok, pk, og, cp) ==
    LET iOrigin  == 1 + pk
        iCapture == iOrigin + 2 * og
        iDest    == iCapture + cp
    IN IF /\ (pk = 1 => (1 <= Len(tok) /\ tok[1] \in PieceKindClass))
          /\ (og = 1 => SquareAt(tok, iOrigin))
          /\ (cp = 1 => (iCapture <= Len(tok) /\ tok[iCapture] \in CaptureClass))
          /\ SquareAt(tok, iDest)
       THEN [matched |-> TRUE,
             piece_kind |-> IF pk = 1 THEN <<tok[1]>> ELSE <<>>,
             origin |-> IF og = 1 THEN <<tok[iOrigin], tok[iOrigin + 1]>> ELSE <<>>,
             capture |-> IF cp = 1 THEN <<tok[iCapture]>> ELSE <<>>,
             destination |-> <<tok[iDest], tok[iDest + 1]>>]
       ELSE [matched |-> FALSE, piece_kind |-> <<>>, origin |-> <<>>,
             capture |-> <<>>, destination |-> <<>>]

\* the order a non-greedy "??" after each group would give: skipped before taken
LazyOrder ==
    << <<0, 0, 0>>, <<0, 0, 1>>, <<0, 1, 0>>, <<0, 1, 1>>,
       <<1, 0, 0>>, <<1, 0, 1>>, <<1, 1, 0>>, <<1, 1, 1>> >>

\* The order in which the backtracking matcher goes through the optional groups
\* (piece_kind)?(origin)?(capture)?: "?" is greedy, so each group is first
\* taken and only skipped on backtracking, the last group backtracking first.
GreedyOrder ==
    << <<1, 1, 1>>, <<1, 1, 0>>, <<1, 0, 1>>, <<1, 0, 0>>,
       <<0, 1, 1>>, <<0, 1, 0>>, <<0, 0, 1>>, <<0, 0, 0>> >>

\* RegularMove._regex.match(move): the first way through the pattern that matches
\* at the start of the token; characters after the match are not looked at
RECURSIVE regex_match_from(_, _)
regex_match_from(tok, k) ==
    IF k > Len(GreedyOrder) THEN MatchWith(<<>>, 0, 0, 0)
    ELSE LET m == MatchWith(tok, GreedyOrder[k][1], GreedyOrder[k][2], GreedyOrder[k][3])
         IN IF m.matched THEN m ELSE regex_match_from(tok, k + 1)

regex_match(tok) == regex_match_from(tok, 1)

\* the result of a parser: the exception raised, or the Move returned
Raise(exc) == [raised |-> exc, move |-> NoMove]
Return(m) == [raised |-> "none", move |-> m]

\* RegularMove.from_algebraic_notation
RegularMoveFromAlgebraicNotation(tok) ==
    LET match == regex_match(tok) IN
    IF ~match.matched THEN Raise("InvalidNotationError")
    ELSE LET piece_kind == from_letter(match.piece_kind)
             origin == IF match.origin # <<>>
                       THEN PositionFromAlgebraicNotation(match.origin)
                       ELSE [raised |-> "none", position |-> None]
             destination == PositionFromAlgebraicNotation(match.destination)
             with_capture == match.capture # <<>>
         IN IF piece_kind.raised # "none" THEN Raise(piece_kind.raised)
            ELSE IF origin.raised # "none" THEN Raise(origin.raised)
            ELSE IF destination.raised # "none" THEN Raise(destination.raised)
            ELSE Return(RegularMove(destination.position, origin.position,
                                    piece_kind.kind, with_capture))

\* CastlingMove._castling_letters
castling_letters == <<"0", "O">>

\* both patterns three letters long
kingside_pattern_long(letter) == <<letter, "-", letter, "-", letter>>

\* CastlingMove._kingside_pattern
kingside_pattern(letter) == <<letter, "-", letter>>

\* CastlingMove._queenside_pattern
queenside_pattern(letter) == <<letter, "-", letter, "-", letter>>

\* CastlingMove.from_algebraic_notation
RECURSIVE castling_from(_, _)
castling_from(tok, k) ==
    IF k > Len(castling_letters) THEN Raise("InvalidNotationError")
    ELSE IF tok = kingside_pattern(castling_letters[k]) THEN Return(CastlingMove(TRUE))
    ELSE IF tok = queenside_pattern(castling_letters[k]) THEN Return(CastlingMove(FALSE))
    ELSE castling_from(tok, k + 1)

CastlingMoveFromAlgebraicNotation(tok) == castling_from(tok, 1)

\* Move.__subclasses__(), in definition order
MoveSubclasses == <<"RegularMove", "CastlingMove">>

\* move_subclass.from_algebraic_notation(move)
SubclassFromAlgebraicNotation(subclass, tok) ==
    IF subclass = "RegularMove" THEN RegularMoveFromAlgebraicNotation(tok)
    ELSE CastlingMoveFromAlgebraicNotation(tok)

\* Move.from_algebraic_notation: the first subclass that does not raise
\* InvalidNotationError decides; any other exception propagates
RECURSIVE move_from(_, _)
move_from(tok, k) ==
    IF k > Len(MoveSubclasses) THEN Raise("InvalidNotationError")
    ELSE LET r == SubclassFromAlgebraicNotation(MoveSubclasses[k], tok)
         IN IF r.raised = "InvalidNotationError" THEN move_from(tok, k + 1) ELSE r

MoveFromAlgebraicNotation(tok) == move_from(tok, 1)

----------------------------------------------------------------------------
(* The state machines *)

\* two generators obtained from Position.every(), consumed independently
Generators == {"first", "second"}

\* the parser has not been called
NotParsed == [raised |-> "none", move |-> NoMove]

\* the squares of the e file: a WHITE king and pawn, four empty squares, a BLACK
\* pawn and king
FocusSquares == {p \in Positions : p.file = 4}

\* every RegularMove between the squares of S (origin possibly absent), and both castlings
MovesOver(S) ==
    {RegularMove(d, o, PAWN, FALSE) : d \in S, o \in S \cup {None}}
        \cup {CastlingMove(k) : k \in BOOLEAN}

\* Game(): board = Board(), current_player = PieceColor.WHITE
Init ==
    /\ board = NewBoard
    /\ current_player = WHITE
    /\ calls = 0
    /\ op = "init"
    /\ move = NoMove
    /\ raised = "none"
    /\ before = NewBoard
    /\ player_before = WHITE
    /\ yielded = [g \in Generators |-> <<>>]
    /\ exhausted = [g \in Generators |-> FALSE]
    /\ token = <<>>
    /\ parsed = NotParsed

\* Game(current_player=...): the dataclass takes either colour
InitAnyPlayer ==
    /\ board = NewBoard
    /\ current_player \in Range(PieceColor)
    /\ calls = 0
    /\ op = "init"
    /\ move = NoMove
    /\ raised = "none"
    /\ before = NewBoard
    /\ player_before = current_player
    /\ yielded = [g \in Generators |-> <<>>]
    /\ exhausted = [g \in Generators |-> FALSE]
    /\ token = <<>>
    /\ parsed = NotParsed

\* game.attempt_move(m); afterwards `then` operations count as performed
AttemptMove(m, then) ==
    /\ calls < MaxCalls
    /\ LET out == attempt_move(board, current_player, m) IN
        /\ board' = out.pieces
        /\ current_player' = out.player
        /\ raised' = out.raised
    /\ calls' = then
    /\ op' = "attempt_move"
    /\ move' = m
    /\ before' = board
    /\ player_before' = current_player
    /\ UNCHANGED <<everyVars, parseVars>>

\* board.move_piece(origin, destination); afterwards `then` operations count as performed
MovePiece(origin, destination, then) ==
    /\ calls < MaxBoardCalls
    /\ LET out == move_piece(board, origin, destination) IN
        /\ board' = out.pieces
        /\ raised' = out.raised
    /\ calls' = then
    /\ op' = "move_piece"
    /\ move' = RegularMove(destination, origin, PAWN, FALSE)
    /\ before' = board
    /\ player_before' = current_player
    /\ UNCHANGED <<current_player, everyVars, parseVars>>

\* next(g) on a generator of Position.every(): the next position, or the end
EveryNext(g) ==
    /\ ~exhausted[g]
    /\ IF Len(yielded[g]) < Len(PositionEvery)
       THEN /\ yielded' = [yielded EXCEPT ![g] = Append(@, PositionEvery[Len(@) + 1])]
            /\ UNCHANGED exhausted
       ELSE /\ exhausted' = [exhausted EXCEPT ![g] = TRUE]
            /\ UNCHANGED yielded
    /\ UNCHANGED <<gameVars, parseVars>>

\* g = Position.every(): a new generator, once the previous one has been used
EveryCall(g) ==
    /\ yielded[g] # <<>>
    /\ yielded' = [yielded EXCEPT ![g] = <<>>]
    /\ exhausted' = [exhausted EXCEPT ![g] = FALSE]
    /\ UNCHANGED <<gameVars, parseVars>>

\* a call with a move among the focus squares, which further calls may follow
FocusAttempt == \E m \in MovesOver(FocusSquares) : AttemptMove(m, calls + 1)

\* a call on the fresh Game with any move of the whole board; the run ends with it
FreshAttempt == calls = 0 /\ \E m \in MovesOver(Positions) : AttemptMove(m, MaxCalls)

Next == FocusAttempt \/ FreshAttempt

\* a Game created with defaults, driven by attempt_move
Spec == Init /\ [][Next]_vars

\* a Game created with either colour to move, driven by attempt_move
SpecAnyPlayer == InitAnyPlayer /\ [][Next]_vars

\* move_piece between focus squares, which further calls may follow
FocusMovePiece ==
    \E o \in FocusSquares, d \in FocusSquares : MovePiece(o, d, calls + 1)

\* move_piece on the fresh Board between any two squares; the run ends with it
FreshMovePiece ==
    calls = 0 /\ \E o \in Positions, d \in Positions : MovePiece(o, d, MaxBoardCalls)

BoardNext == FocusMovePiece \/ FreshMovePiece

\* a Board driven directly by move_piece
BoardSpec == Init /\ [][BoardNext]_vars

\* the parts tokens are put together from: single characters, whole squares,
\* a capture on d3 and the two kingside castling tokens
Parts ==
    {<<c>> : c \in {"N", "Q", "K", "P", "n", "a", "e", "h", "E", "1", "4", "8", "9",
                    "x", ":", "-", "z", "O", "0"}}
        \cup {<<"e", "2">>, <<"d", "3">>, <<"f", "3">>, <<"x", "d", "3">>}
        \cup {<<"O", "-", "O">>, <<"0", "-", "0">>}

\* Move.from_algebraic_notation(t); afterwards `then` operations count as performed
Parse(t, then) ==
    /\ calls < MaxParts
    /\ token' = t
    /\ parsed' = MoveFromAlgebraicNotation(t)
    /\ calls' = then
    /\ op' = "parse"
    /\ UNCHANGED <<board, current_player, move, raised, before, player_before, everyVars>>

\* the parser called with the previous token extended by one part
ParseLonger == \E q \in Parts : Parse(token \o q, calls + 1)

\* the parser called with the empty token; the run ends with it
ParseEmpty == calls = 0 /\ Parse(<<>>, MaxParts)

ParseNext == ParseLonger \/ ParseEmpty

\* the parser called with one token after another
ParseSpec == Init /\ [][ParseNext]_vars

EverySpecNext == \E g \in Generators : EveryNext(g) \/ EveryCall(g)

\* two Position.every() generators, stepped and restarted in any interleaving
EverySpec == Init /\ [][EverySpecNext]_vars

----------------------------------------------------------------------------
(* Properties *)

\* the last operation was attempt_move with a RegularMove
RegularAttempt == op = "attempt_move" /\ move.type = "RegularMove"

\* the squares other than origin and destination hold what they held before
SameElsewhere(origin, destination) ==
    \A p \in Positions \ {origin, destination} :
        /\ (p \in DOMAIN board) = (p \in DOMAIN before)
        /\ p \in DOMAIN before => board[p] = before[p]

\* the number of squares of the mapping that hold the piece
CountOf(pieces, piece) == Cardinality({p \in DOMAIN pieces : pieces[p] = piece})

\* C1: attempt_move with a RegularMove whose origin holds a piece of the colour
\* that is not to move ends with IllegalMoveError and leaves every square and
\* current_player as they were; on the fresh Game with WHITE to move this covers
\* every BLACK-occupied origin with every destination.
C1_WrongColourRejected ==
    (/\ RegularAttempt
     /\ move.origin \in DOMAIN before
     /\ before[move.origin].color # player_before)
    => /\ raised = "IllegalMoveError"
       /\ board = before
       /\ current_player = player_before

\* a fresh Game, WHITE to move, asked to move the BLACK rook a8 to h1, has refused
C1_Witness ==
    /\ RegularAttempt
    /\ before = NewBoard
    /\ player_before = WHITE
    /\ yielded = [g \in Generators |-> <<>>]
    /\ exhausted = [g \in Generators |-> FALSE]
    /\ token = <<>>
    /\ parsed = NotParsed
    /\ move.origin = Position(0, 8)
    /\ move.destination = Position(7, 1)
    /\ before[move.origin].color = BLACK
    /\ raised = "IllegalMoveError"

\* C2: attempt_move with a RegularMove whose origin square is empty ends with
\* IllegalMoveError and leaves the mapping unchanged, whatever the destination.
C2_EmptyOriginRejected ==
    (/\ RegularAttempt
     /\ move.origin \in Positions
     /\ move.origin \notin DOMAIN before)
    => /\ raised = "IllegalMoveError"
       /\ board = before

\* after the e pawn left e2, a move from the now empty e2 onto the occupied e7
\* has been refused
C2_Witness ==
    /\ RegularAttempt
    /\ before # NewBoard
    /\ move.origin = Position(4, 2)
    /\ move.origin \notin DOMAIN before
    /\ move.destination \in DOMAIN before
    /\ raised = "IllegalMoveError"

C4_MovePieceEmptyOrigin ==
    (/\ op = "move_piece"
     /\ move.origin \notin DOMAIN before)
    => /\ raised = "IllegalMoveError"
       /\ board = before

\* move_piece from the empty e4 onto the occupied e7 has been refused
C4_Witness ==
    /\ op = "move_piece"
    /\ move.origin = Position(4, 4)
    /\ move.origin \notin DOMAIN before
    /\ move.destination = Position(4, 7)
    /\ move.destination \in DOMAIN before
    /\ raised = "IllegalMoveError"

\* C5: in a Game created with defaults current_player is WHITE after every
\* sequence of attempt_move calls.
C5_PlayerNeverAdvances == current_player = WHITE

\* MaxCalls calls have been made and the last one moved a piece
C5_Witness ==
    /\ calls = MaxCalls
    /\ RegularAttempt
    /\ raised = "none"
    /\ board # before
    /\ before # NewBoard

\* C6: the fresh Board holds 32 pieces: per colour 8 pawns, 2 rooks, 2 knights,
\* 2 bishops, a queen and a king; the WHITE pawns are on rank 2, the BLACK pawns
\* on rank 7, and ranks 3 to 6 are empty.
C6_FreshBoard ==
    op = "init" =>
        /\ Cardinality(DOMAIN board) = 32
        /\ \A c \in {WHITE, BLACK} :
            /\ CountOf(board, Piece(PAWN, c)) = 8
            /\ CountOf(board, Piece(ROOK, c)) = 2
            /\ CountOf(board, Piece(KNIGHT, c)) = 2
            /\ CountOf(board, Piece(BISHOP, c)) = 2
            /\ CountOf(board, Piece(QUEEN, c)) = 1
            /\ CountOf(board, Piece(KING, c)) = 1
        /\ \A p \in DOMAIN board :
            /\ board[p] = Piece(PAWN, WHITE) => p.rank = 2
            /\ board[p] = Piece(PAWN, BLACK) => p.rank = 7
            /\ p.rank \notin 3..6

\* the Board as constructed, with the WHITE king on e1
C6_Witness ==
    /\ op = "init"
    /\ calls = 0
    /\ has_piece_at(board, Position(4, 1))
    /\ board[Position(4, 1)] = Piece(KING, WHITE)

\* a kind/colour pair
IsPiece(x) == DOMAIN x = {"kind", "color"}

\* C7: iterating over the Board yields Pieces, one per occupied square: the
\* multiset of yielded elements is the multiset of the mapping's values.
C7_IterationYieldsPieces ==
    /\ \A x \in BagToSet(board_iter(board)) :
        IsPiece(x) /\ CopiesIn(x, board_iter(board)) = CountOf(board, x)
    /\ BagCardinality(board_iter(board)) = Cardinality(DOMAIN board)

\* C8: Position.every() yields exactly 64 positions, pairwise distinct, covering
\* every file a..h and rank 1..8, rank 8 first and rank 1 last and within a rank
\* file a to h; every generator it returns yields that same sequence.
C8_EveryOrder ==
    \A g \in Generators :
        /\ Len(yielded[g]) <= 64
        /\ exhausted[g] =>
            /\ Len(yielded[g]) = 64
            /\ Range(yielded[g]) = Positions
        /\ \A k \in DOMAIN yielded[g] :
            /\ yielded[g][k].rank = 8 - ((k - 1) \div 8)
            /\ yielded[g][k].file = (k - 1) % 8
            /\ \A j \in DOMAIN yielded[g] : j # k => yielded[g][j] # yielded[g][k]
        /\ \A h \in Generators : \A k \in (DOMAIN yielded[g]) \cap (DOMAIN yielded[h]) :
            yielded[g][k] = yielded[h][k]

\* one generator has run to its end while the other has yielded a8 .. b7
C8_Witness ==
    /\ exhausted["first"]
    /\ Len(yielded["first"]) = 64
    /\ ~exhausted["second"]
    /\ Len(yielded["second"]) = 10
    /\ yielded["second"][10] = Position(1, 7)

\* after an optional piece-kind letter the token goes on with a square, or with
\* a capture marker and a square: the tokens RegularMove's pattern matches
RegularShape(tok) ==
    \E n \in {0, 1} :
        /\ n = 1 => (Len(tok) >= 1 /\ tok[1] \in PieceKindClass)
        /\ \/ SquareAt(tok, n + 1)
           \/ (Len(tok) >= n + 1 /\ tok[n + 1] \in CaptureClass /\ SquareAt(tok, n + 2))

\* the parser has been called
Parsed == op = "parse"

\* C9: Move.from_algebraic_notation gives a RegularMove for a token the regular
\* grammar accepts; otherwise CastlingMove(kingside) for "O-O" and "0-0",
\* CastlingMove(queenside) for "O-O-O" and "0-0-0"; and for every other token
\* it raises InvalidNotationError and gives no move.
C9_Dispatch ==
    Parsed =>
        IF RegularShape(token)
        THEN parsed.raised = "none" /\ parsed.move.type = "RegularMove"
        ELSE IF token \in {<<"O", "-", "O">>, <<"0", "-", "0">>}
        THEN parsed = Return(CastlingMove(TRUE))
        ELSE IF token \in {<<"O", "-", "O", "-", "O">>, <<"0", "-", "0", "-", "0">>}
        THEN parsed = Return(CastlingMove(FALSE))
        ELSE parsed = Raise("InvalidNotationError")

\* "0-0-0" has been parsed to the queenside castling
C9_Witness ==
    /\ Parsed
    /\ token = <<"0", "-", "0", "-", "0">>
    /\ parsed = Return(CastlingMove(FALSE))

\* the square two characters of a token spell, files a..h as 0..7
SquareOf(tok, i) ==
    Position(CHOOSE f \in 0..7 : <<"a", "b", "c", "d", "e", "f", "g", "h">>[f + 1] = tok[i],
             CHOOSE r \in 1..8 : <<"1", "2", "3", "4", "5", "6", "7", "8">>[r] = tok[i + 1])

\* the kind a piece-kind letter stands for
KindOf(c) ==
    CASE c = "K" -> KING [] c = "Q" -> QUEEN [] c = "N" -> KNIGHT
      [] c = "B" -> BISHOP [] c = "R" -> ROOK

\* C10: for a token the regular grammar accepts, piece_kind is the kind of the
\* leading letter, PAWN without one; when two squares follow each other (a
\* capture marker possibly between them) origin is the first and destination
\* the second, and with_capture says whether the marker is there; otherwise
\* origin is absent, destination is the one square and with_capture says
\* whether a marker stands before it.  What follows the destination is ignored.
C10_RegularFields ==
    /\ Parsed /\ token = <<"e", "4">>
        => parsed = Return(RegularMove(Position(4, 4), None, PAWN, FALSE))
    /\ Parsed /\ token = <<"N", "f", "3">>
        => parsed = Return(RegularMove(Position(5, 3), None, KNIGHT, FALSE))
    /\ (Parsed /\ RegularShape(token)) =>
        LET n == IF Len(token) >= 1 /\ token[1] \in PieceKindClass THEN 1 ELSE 0
            twoPlain == SquareAt(token, n + 1) /\ SquareAt(token, n + 3)
            twoMarked == /\ SquareAt(token, n + 1)
                         /\ Len(token) >= n + 3
                         /\ token[n + 3] \in CaptureClass
                         /\ SquareAt(token, n + 4)
            marked == Len(token) >= n + 1 /\ token[n + 1] \in CaptureClass
        IN /\ parsed.raised = "none"
           /\ parsed.move.piece_kind = (IF n = 1 THEN KindOf(token[1]) ELSE PAWN)
           /\ parsed.move.kingside = FALSE
           /\ IF twoPlain
              THEN /\ parsed.move.origin = SquareOf(token, n + 1)
                   /\ parsed.move.destination = SquareOf(token, n + 3)
                   /\ parsed.move.with_capture = FALSE
              ELSE IF twoMarked
              THEN /\ parsed.move.origin = SquareOf(token, n + 1)
                   /\ parsed.move.destination = SquareOf(token, n + 4)
                   /\ parsed.move.with_capture = TRUE
              ELSE IF marked
              THEN /\ parsed.move.origin = None
                   /\ parsed.move.destination = SquareOf(token, n + 2)
                   /\ parsed.move.with_capture = TRUE
              ELSE /\ parsed.move.origin = None
                   /\ parsed.move.destination = SquareOf(token, n + 1)
                   /\ parsed.move.with_capture = FALSE

\* "e2xd3" has been parsed to the pawn capture from e2 on d3
C10_Witness ==
    /\ Parsed
    /\ token = <<"e", "2", "x", "d", "3">>
    /\ parsed = Return(RegularMove(Position(3, 3), Position(4, 2), PAWN, TRUE))

\* the tokens that are tok up to the case of its letters
RECURSIVE CaseForms(_)
CaseForms(tok) ==
    IF tok = <<>> THEN {<<>>}
    ELSE LET last == tok[Len(tok)]
         IN {Append(t, c) : t \in CaseForms(SubSeq(tok, 1, Len(tok) - 1)),
                            c \in {last, Lower(last), Upper(last)}}

\* v is a with only the case of its piece-kind letter or of file letters changed
CaseVariantOf(v, a) ==
    /\ Len(v) = Len(a)
    /\ \A i \in DOMAIN a :
        \/ v[i] = a[i]
        \/ /\ Lower(v[i]) = Lower(a[i])
           /\ (i = 1 /\ a[1] \in PieceKindClass) \/ a[i] \in FileClass

\* C11: the parser takes piece-kind letters and file letters in either case: a
\* token that is an accepted regular-move token up to the case of its
\* piece-kind letter or of its file letters ("nf3" for "Nf3", "E4" for "e4")
\* is accepted and gives the RegularMove the accepted token gives.
C11_CaseInsensitive ==
    Parsed =>
        \A a \in CaseForms(token) :
            (RegularShape(a) /\ CaseVariantOf(token, a))
                => parsed = MoveFromAlgebraicNotation(a)

\* C12: attempt_move with a CastlingMove, kingside or queenside, returns
\* without error and leaves every square and current_player as they were.
C12_CastlingDoesNothing ==
    (op = "attempt_move" /\ move.type = "CastlingMove")
    => /\ raised = "none"
       /\ board = before
       /\ current_player = player_before

\* after an earlier move changed the board, a queenside castling has returned
C12_Witness ==
    /\ op = "attempt_move"
    /\ move = CastlingMove(FALSE)
    /\ before # NewBoard
    /\ calls >= 2
    /\ raised = "none"

\* the last call moved a piece onto an occupied square other than its origin
LandedOnOccupied ==
    /\ RegularAttempt
    /\ raised = "none"
    /\ move.destination # move.origin
    /\ move.destination \in DOMAIN before

\* C13: in a Game created with defaults every BLACK piece on the board is on
\* the square it started on, a BLACK piece leaves the board only by a
\* successful move landing on its square, and the number of pieces never goes
\* up from one call to the next: it goes down by exactly one when a successful
\* move lands on an occupied square other than its origin.
C13_BlackStaysCountFalls ==
    /\ \A p \in DOMAIN board :
        board[p].color = BLACK => (p \in DOMAIN NewBoard /\ NewBoard[p] = board[p])
    /\ \A p \in DOMAIN before :
        (before[p].color = BLACK /\ p \notin DOMAIN board) =>
            (LandedOnOccupied /\ move.destination = p)
    /\ \A p \in DOMAIN before :
        (before[p].color = BLACK /\ p \in DOMAIN board /\ board[p] # before[p]) =>
            (LandedOnOccupied /\ move.destination = p)
    /\ Cardinality(DOMAIN board) <= Cardinality(DOMAIN before)
    /\ LandedOnOccupied => Cardinality(DOMAIN board) = Cardinality(DOMAIN before) - 1

\* with a BLACK piece already taken, a WHITE piece has landed on another WHITE piece
C13_Witness ==
    /\ LandedOnOccupied
    /\ before[move.destination].color = WHITE
    /\ before[move.origin].color = WHITE
    /\ Cardinality(DOMAIN before) = 31
    /\ Cardinality(DOMAIN board) = 30
    /\ \E p \in DOMAIN NewBoard :
        NewBoard[p].color = BLACK /\ p \in DOMAIN board /\ board[p].color = WHITE

\* C14: attempt_move with a RegularMove without origin, such as parsing "e4"
\* gives, ends with IllegalMoveError and leaves every square and current_player
\* as they were: no origin is worked out from destination and piece kind.
C14_AbsentOriginRejected ==
    (RegularAttempt /\ move.origin = None)
    => /\ raised = "IllegalMoveError"
       /\ board = before
       /\ current_player = player_before

\* the move "e4" parses to, which the pawn on e2 could make, has been refused
C14_Witness ==
    /\ RegularAttempt
    /\ MoveFromAlgebraicNotation(<<"e", "4">>).raised = "none"
    /\ move = MoveFromAlgebraicNotation(<<"e", "4">>).move
    /\ move.origin = None
    /\ player_before = WHITE
    /\ has_piece_at(before, Position(4, 2))
    /\ before[Position(4, 2)] = Piece(PAWN, WHITE)
    /\ ~has_piece_at(before, Position(4, 4))
    /\ raised = "IllegalMoveError"

====
